---------------------------- MODULE Spec2Model ----------------------------
(***************************************************************************)
(* Model of the trademark risk-scoring engine                              *)
(* (backend/app/services/risk_scorer.py and its callers).                  *)
(*                                                                         *)
(* Texts are sequences of one-character strings.  Scores are Python floats *)
(* in the code; here a score is the exact rational it denotes, stored as   *)
(* an integer number of 1/Unit points (Score(100) is 100.0), so that every *)
(* quotient the code forms (distance / max_len, overlap / query classes)   *)
(* and every weighted product is an integer.  Binary rounding of the       *)
(* floats is not modelled.                                                 *)
(***************************************************************************)
EXTENDS Integers, Sequences, FiniteSets, TLC

VARIABLES
    pc,               \* position of the caller: which call comes next
    HAS_LEVENSHTEIN,  \* risk_scorer.py:7-11, set once at import
    HAS_JELLYFISH,    \* risk_scorer.py:13-17, set once at import
    query,            \* the proposed mark (argument `query`)
    trademark,        \* the candidate record (argument `trademark`)
    query_classes,    \* argument `query_classes`
    similarity_score, \* value returned by calculate_similarity_score
    risk_factors,     \* the RiskFactors record returned by calculate_risk_score
    risk_score,       \* the overall score returned by calculate_risk_score
    risk_level,       \* value returned by get_risk_level
    raised,           \* the exception that ended the call, or NoError
    class_overlap_score, \* value returned by calculate_class_overlap_score
    status_str,       \* the status text of a search result (uspto.py:94)
    conflict_reason,  \* value returned by get_conflict_reason
    risk_analyses,    \* analysis.py:104, the assessments of the batch
    results_by_tier,  \* analysis.py:140, the RiskTierResults
    summary,          \* the SearchResultsSummary of generate_summary
    request,          \* the SearchQuery handed to analyze_trademark
    trademarks,       \* analysis.py:44, the candidates found by the search
    response,         \* what analyze_trademark answered
    loop_index,       \* position of the for loop at work in analyze_trademark
    tsdr_data,        \* analysis.py:82, what the last TSDR lookup delivered
    search_answer     \* what the search API answers to the request of uspto.py:54

\* the variables of the batch and of the single calls beside the scorer's
extraVars == << class_overlap_score, status_str, conflict_reason, risk_analyses,
                results_by_tier, summary, request, trademarks, response, loop_index,
                    tsdr_data, search_answer >>

vars == << pc, HAS_LEVENSHTEIN, HAS_JELLYFISH, query, trademark, query_classes,
           similarity_score, risk_factors, risk_score, risk_level, raised,
           class_overlap_score, status_str, conflict_reason, risk_analyses,
           results_by_tier, summary, request, trademarks, response, loop_index,
                    tsdr_data, search_answer >>

--------------------------------------------------------------------------
(* Bounds of the model *)

\* longest text (in characters) drawn as query or mark text in SpecSim
MaxLen == 2

\* longest query class list drawn in Spec
MaxClasses == 2
MaxBatch == 4
MaxResults == 2

--------------------------------------------------------------------------
(* Numbers *)

Max2(a, b) == IF a >= b THEN a ELSE b

Min2(a, b) == IF a <= b THEN a ELSE b

RECURSIVE Gcd(_, _)
Gcd(a, b) == IF b = 0 THEN a ELSE Gcd(b, a % b)

RECURSIVE LcmUpTo(_)
LcmUpTo(n) == IF n <= 1 THEN 1 ELSE LET l == LcmUpTo(n - 1) IN (l * n) \div Gcd(l, n)

\* points per 1.0 of score: divisible by 1000 (tenths of a point, percent
\* weights) and by every length and class count the model can draw (the
\* sample texts of Spec have up to 3 characters)
Unit == 1000 * LcmUpTo(Max2(Max2(MaxLen, MaxClasses), 3))

Score(n) == n * Unit

NoValue == "none"

NoError == "no error"

ZeroDivisionError == "ZeroDivisionError"

ValidationError == "ValidationError"

\* the outcome of evaluating a Python expression: a value, or an exception
Ok(v) == [err |-> NoError, val |-> v]

Err(e) == [err |-> e, val |-> 0]

\* Python's a / b on non-negative numbers: raises when b is 0
TrueDiv(a, b) == IF b = 0 THEN Err(ZeroDivisionError) ELSE Ok(a \div b)

\* Python's max(scores) of a non-empty list of outcomes; an element that
\* raised ended the call before max was reached
RECURSIVE MaxOf(_)
MaxOf(scores) ==
    IF scores[1].err # NoError THEN scores[1]
    ELSE IF Len(scores) = 1 THEN scores[1]
    ELSE LET rest == MaxOf(Tail(scores)) IN
         IF rest.err # NoError THEN rest
         ELSE Ok(Max2(scores[1].val, rest.val))

--------------------------------------------------------------------------
(* Texts *)

Alphabet == {"A", "x", "X", " "}

Strings(n) == UNION {[1..k -> Alphabet] : k \in 0..n}

LowerCase ==
    << "a", "b", "c", "d", "e", "f", "g", "h", "i", "j", "k", "l", "m",
       "n", "o", "p", "q", "r", "s", "t", "u", "v", "w", "x", "y", "z" >>

UpperCase ==
    << "A", "B", "C", "D", "E", "F", "G", "H", "I", "J", "K", "L", "M",
       "N", "O", "P", "Q", "R", "S", "T", "U", "V", "W", "X", "Y", "Z" >>

\* str.upper() on one ASCII character
UpperChar(c) ==
    IF \E i \in 1..26 : LowerCase[i] = c
    THEN UpperCase[CHOOSE i \in 1..26 : LowerCase[i] = c]
    ELSE c

upper(s) == [i \in 1..Len(s) |-> UpperChar(s[i])]

IsSpace(c) == c = " "

RECURSIVE lstrip(_)
lstrip(s) == IF s # <<>> /\ IsSpace(Head(s)) THEN lstrip(Tail(s)) ELSE s

RECURSIVE rstrip(_)
rstrip(s) ==
    IF s # <<>> /\ IsSpace(s[Len(s)]) THEN rstrip(SubSeq(s, 1, Len(s) - 1)) ELSE s

\* str.strip()
strip(s) == rstrip(lstrip(s))

\* Python's `a in b` on strings
Contains(a, b) ==
    \E i \in 0..(Len(b) - Len(a)) : SubSeq(b, i + 1, i + Len(a)) = a

\* Levenshtein.distance(a, b): insertions, deletions, substitutions, cost 1
RECURSIVE LevPrefix(_, _, _, _)
LevPrefix(a, b, i, j) ==
    IF i = 0 THEN j
    ELSE IF j = 0 THEN i
    ELSE Min2(Min2(LevPrefix(a, b, i - 1, j) + 1, LevPrefix(a, b, i, j - 1) + 1),
              LevPrefix(a, b, i - 1, j - 1) + (IF a[i] = b[j] THEN 0 ELSE 1))

Levenshtein_distance(a, b) == LevPrefix(a, b, Len(a), Len(b))

\* sum(1 for a, b in zip(query, mark_text) if a == b)
matching_chars(a, b) ==
    Cardinality({i \in 1..Min2(Len(a), Len(b)) : a[i] = b[i]})

--------------------------------------------------------------------------
(* Phonetic encodings of the jellyfish library, as called at               *)
(* risk_scorer.py:163 and :168.  Soundex is the American Soundex; the      *)
(* Metaphone rules are those of the characters of Alphabet.                *)

SoundexDigit(c) ==
    IF c \in {"B", "F", "P", "V"} THEN "1"
    ELSE IF c \in {"C", "G", "J", "K", "Q", "S", "X", "Z"} THEN "2"
    ELSE IF c \in {"D", "T"} THEN "3"
    ELSE IF c = "L" THEN "4"
    ELSE IF c \in {"M", "N"} THEN "5"
    ELSE IF c = "R" THEN "6"
    ELSE NoValue

RECURSIVE SoundexLoop(_, _, _, _)
SoundexLoop(s, i, result, last) ==
    IF i > Len(s) \/ Len(result) = 4 THEN result
    ELSE LET sub == SoundexDigit(s[i]) IN
         IF sub # NoValue
         THEN SoundexLoop(s, i + 1, IF sub # last THEN Append(result, sub) ELSE result, sub)
         ELSE SoundexLoop(s, i + 1, result, IF s[i] \in {"H", "W"} THEN last ELSE NoValue)

RECURSIVE ZeroPad(_)
ZeroPad(code) == IF Len(code) >= 4 THEN code ELSE ZeroPad(Append(code, "0"))

soundex(s) ==
    IF s = <<>> THEN <<>>
    ELSE LET u == upper(s) IN ZeroPad(SoundexLoop(u, 2, <<u[1]>>, SoundexDigit(u[1])))

RECURSIVE MetaphoneLoop(_, _, _)
MetaphoneLoop(s, i, result) ==
    IF i > Len(s) THEN result
    ELSE LET c == s[i] IN
         IF i < Len(s) /\ s[i + 1] = c /\ c # "C"
         THEN MetaphoneLoop(s, i + 1, result)
         ELSE IF c = "A"
         THEN MetaphoneLoop(s, i + 1,
                  IF i = 1 \/ s[i - 1] = " " THEN Append(result, "A") ELSE result)
         ELSE IF c = "X"
         THEN MetaphoneLoop(s, i + 1,
                  IF i = 1 THEN Append(result, "S") ELSE result \o <<"K", "S">>)
         ELSE IF c = " "
         THEN MetaphoneLoop(s, i + 1,
                  IF result # <<>> /\ result[Len(result)] # " "
                  THEN Append(result, " ") ELSE result)
         ELSE MetaphoneLoop(s, i + 1, result)

metaphone(s) == MetaphoneLoop(upper(s), 1, <<>>)

--------------------------------------------------------------------------
(* RiskScorer: constants *)

\* the weights, in hundredths (0.40, 0.30, 0.20, 0.10)
SIMILARITY_WEIGHT == 40

CLASS_OVERLAP_WEIGHT == 30

STATUS_STRENGTH_WEIGHT == 20

USE_COMMERCE_WEIGHT == 10

FAMOUS_MARKS ==
    { <<"A", "P", "P", "L", "E">>, <<"T", "H", "I", "N", "K", " ", "D", "I", "F", "F", "E", "R", "E", "N", "T">>, <<"G", "O", "O", "G", "L", "E">>,
      <<"M", "I", "C", "R", "O", "S", "O", "F", "T">>, <<"A", "M", "A", "Z", "O", "N">>, <<"F", "A", "C", "E", "B", "O", "O", "K">>,
      <<"M", "E", "T", "A">>, <<"I", "N", "S", "T", "A", "G", "R", "A", "M">>, <<"Y", "O", "U", "T", "U", "B", "E">>,
      <<"T", "W", "I", "T", "T", "E", "R">>, <<"X">>, <<"T", "E", "S", "L", "A">>,
      <<"N", "E", "T", "F", "L", "I", "X">>, <<"U", "B", "E", "R">>, <<"A", "I", "R", "B", "N", "B">>,
      <<"N", "I", "K", "E">>, <<"J", "U", "S", "T", " ", "D", "O", " ", "I", "T">>, <<"A", "D", "I", "D", "A", "S">>,
      <<"P", "U", "M", "A">>, <<"U", "N", "D", "E", "R", " ", "A", "R", "M", "O", "U", "R">>, <<"R", "E", "E", "B", "O", "K">>,
      <<"C", "O", "C", "A", "-", "C", "O", "L", "A">>, <<"C", "O", "K", "E">>, <<"P", "E", "P", "S", "I">>,
      <<"M", "C", "D", "O", "N", "A", "L", "D", "'", "S">>, <<"I", "'", "M", " ", "L", "O", "V", "I", "N", "'", " ", "I", "T">>, <<"S", "T", "A", "R", "B", "U", "C", "K", "S">>,
      <<"B", "U", "R", "G", "E", "R", " ", "K", "I", "N", "G">>, <<"K", "F", "C">>, <<"S", "U", "B", "W", "A", "Y">>,
      <<"W", "E", "N", "D", "Y", "'", "S">>, <<"R", "E", "D", " ", "B", "U", "L", "L">>, <<"F", "O", "R", "D">>,
      <<"T", "O", "Y", "O", "T", "A">>, <<"H", "O", "N", "D", "A">>, <<"B", "M", "W">>,
      <<"M", "E", "R", "C", "E", "D", "E", "S">>, <<"M", "E", "R", "C", "E", "D", "E", "S", "-", "B", "E", "N", "Z">>, <<"F", "E", "R", "R", "A", "R", "I">>,
      <<"P", "O", "R", "S", "C", "H", "E">>, <<"C", "H", "E", "V", "R", "O", "L", "E", "T">>, <<"D", "O", "D", "G", "E">>,
      <<"G", "U", "C", "C", "I">>, <<"L", "O", "U", "I", "S", " ", "V", "U", "I", "T", "T", "O", "N">>, <<"C", "H", "A", "N", "E", "L">>,
      <<"P", "R", "A", "D", "A">>, <<"R", "O", "L", "E", "X">>, <<"C", "A", "R", "T", "I", "E", "R">>,
      <<"W", "A", "L", "M", "A", "R", "T">>, <<"T", "A", "R", "G", "E", "T">>, <<"C", "O", "S", "T", "C", "O">>,
      <<"H", "O", "M", "E", " ", "D", "E", "P", "O", "T">>, <<"I", "K", "E", "A">>, <<"V", "I", "S", "A">>,
      <<"M", "A", "S", "T", "E", "R", "C", "A", "R", "D">>, <<"A", "M", "E", "R", "I", "C", "A", "N", " ", "E", "X", "P", "R", "E", "S", "S">>, <<"P", "A", "Y", "P", "A", "L">> }

TrademarkStatus ==
    {"registered", "pending", "abandoned", "cancelled", "expired", "unknown"}

RiskLevel == {"critical", "high", "medium", "low"}

--------------------------------------------------------------------------
(* RiskScorer.calculate_similarity_score *)

\* variant: the case fold forgotten
normalize_case_sensitive(s) == strip(s)

normalize(s) == strip(upper(s))

\* (1 - lev_distance / max_len) * 100 if max_len > 0 else 0
lev_similarity(q, m) ==
    LET lev_distance == Levenshtein_distance(q, m)
        max_len == Max2(Len(q), Len(m))
    IN  IF max_len > 0
        THEN TrueDiv((max_len - lev_distance) * Score(100), max_len)
        ELSE Ok(0)

\* variant: the fallback ratio taken over the query's length
simple_similarity_by_query_len(q, m) ==
    LET max_len == Max2(Len(q), Len(m))
    IN  IF max_len > 0
        THEN <<TrueDiv(matching_chars(q, m) * Score(100), Len(q))>>
        ELSE <<>>

\* (matching_chars / max_len) * 100, appended only if max_len > 0
simple_similarity(q, m) ==
    LET max_len == Max2(Len(q), Len(m))
    IN  IF max_len > 0
        THEN <<TrueDiv(matching_chars(q, m) * Score(100), max_len)>>
        ELSE <<>>

soundex_score(q, m) == IF soundex(q) = soundex(m) THEN Score(80) ELSE 0

metaphone_score(q, m) == IF metaphone(q) = metaphone(m) THEN Score(80) ELSE 0

\* variant: containment tested in one direction only
contains_score_one_way(q, m) == IF Contains(q, m) THEN Score(70) ELSE 0

contains_score(q, m) == IF Contains(q, m) \/ Contains(m, q) THEN Score(70) ELSE 0

\* the list `scores` at risk_scorer.py:179, for normalized q and m
similarity_signals(q, m) ==
    (IF HAS_LEVENSHTEIN THEN <<lev_similarity(q, m)>> ELSE simple_similarity(q, m))
    \o (IF HAS_JELLYFISH
        THEN <<Ok(soundex_score(q, m)), Ok(metaphone_score(q, m))>>
        ELSE <<>>)
    \o <<Ok(contains_score(q, m))>>

\* max(scores) if scores else 0.0, then min(similarity_score, 100.0)
combine_signals(scores) ==
    LET best == IF scores # <<>> THEN MaxOf(scores) ELSE Ok(0)
    IN  IF best.err # NoError THEN best ELSE Ok(Min2(best.val, Score(100)))

\* variant: the exact-match return left out
calculate_similarity_score_no_exact(query_arg, mark_text) ==
    combine_signals(similarity_signals(normalize(query_arg), normalize(mark_text)))

calculate_similarity_score(query_arg, mark_text) ==
    LET q == normalize(query_arg)
        m == normalize(mark_text)
    IN  IF q = m THEN Ok(Score(100))
        ELSE combine_signals(similarity_signals(q, m))

--------------------------------------------------------------------------
(* RiskScorer.calculate_class_overlap_score *)

RECURSIVE zfill3(_)
zfill3(c) == IF Len(c) >= 3 THEN c ELSE zfill3(<<"0">> \o c)

\* variant: the class codes compared without zero-padding
normalized_unpadded(classes) == {classes[i] : i \in 1..Len(classes)}

normalized(classes) == {zfill3(classes[i]) : i \in 1..Len(classes)}

\* variant: 20 points per shared class, neither divided nor clamped
overlap_score_unclamped(overlap, normalized_query) ==
    Score(80) + Cardinality(overlap) * Score(20)

\* variant: any shared class counted as a full overlap
overlap_score_flat(overlap, normalized_query) == Score(100)

\* min(100.0, 80.0 + overlap_ratio * 20.0)
overlap_score(overlap, normalized_query) ==
    Min2(Score(100),
         Score(80) + (Cardinality(overlap) * Score(20)) \div Cardinality(normalized_query))

\* variant: the third band starts above 60
unspecified_classes_score_exclusive(sim) ==
    IF sim >= Score(95) THEN Score(90)
    ELSE IF sim >= Score(80) THEN Score(75)
    ELSE IF sim > Score(60) THEN Score(60)
    ELSE Score(40)

\* the similarity bands used when the user gave no classes, lines 233-240
unspecified_classes_score(sim) ==
    IF sim >= Score(95) THEN Score(90)
    ELSE IF sim >= Score(80) THEN Score(75)
    ELSE IF sim >= Score(60) THEN Score(60)
    ELSE Score(40)

\* variant: a candidate without classes scored like a query without classes
missing_classes_score_as_unspecified(sim) == unspecified_classes_score(sim)

\* the similarity bands used when the mark has no classes, lines 199-206
missing_classes_score(sim) ==
    IF sim >= Score(95) THEN Score(85)
    ELSE IF sim >= Score(80) THEN Score(70)
    ELSE IF sim >= Score(60) THEN Score(55)
    ELSE Score(30)

\* variant: the first band starts above 95
cross_class_score_exclusive(sim) ==
    IF sim > Score(95) THEN Score(40)
    ELSE IF sim >= Score(80) THEN Score(25)
    ELSE Score(10)

\* the similarity bands used when the class sets are disjoint, lines 224-229
cross_class_score(sim) ==
    IF sim >= Score(95) THEN Score(40)
    ELSE IF sim >= Score(80) THEN Score(25)
    ELSE Score(10)

calculate_class_overlap_score(qclasses, mark_classes, sim) ==
    IF mark_classes = <<>>
    THEN missing_classes_score(sim)
    ELSE IF qclasses # <<>>
    THEN LET normalized_query == normalized(qclasses)
             normalized_mark == normalized(mark_classes)
             overlap == normalized_query \cap normalized_mark
         IN  IF overlap # {}
             THEN overlap_score(overlap, normalized_query)
             ELSE cross_class_score(sim)
    ELSE unspecified_classes_score(sim)

--------------------------------------------------------------------------
(* RiskScorer: status factors, aggregation, level *)

\* variant: EXPIRED missing from status_scores, so the default applies
calculate_status_strength_score_no_expired(tm) ==
    IF tm.status = "registered" THEN Score(100)
    ELSE IF tm.status = "pending" THEN Score(70)
    ELSE IF tm.status = "abandoned" THEN Score(20)
    ELSE IF tm.status = "cancelled" THEN Score(20)
    ELSE Score(50)

calculate_status_strength_score(tm) ==
    IF tm.status = "registered" THEN Score(100)
    ELSE IF tm.status = "pending" THEN Score(70)
    ELSE IF tm.status = "abandoned" THEN Score(20)
    ELSE IF tm.status = "cancelled" THEN Score(20)
    ELSE IF tm.status = "expired" THEN Score(30)
    ELSE Score(50)

\* variant: the estimate drifts with the number of assessments made so far
calculate_use_commerce_score_counting(tm) ==
    IF tm.status = "registered" THEN Score(80 - Len(risk_analyses))
    ELSE IF tm.status = "pending" THEN Score(50 - Len(risk_analyses))
    ELSE Score(20 - Len(risk_analyses))

calculate_use_commerce_score(tm) ==
    IF tm.status = "registered" THEN Score(80)
    ELSE IF tm.status = "pending" THEN Score(50)
    ELSE Score(20)

is_famous_mark(mark_text) == normalize(mark_text) \in FAMOUS_MARKS

\* variant: the similarity and class-overlap weights exchanged
weighted_score_swapped(f) ==
    (f.similarity_score * CLASS_OVERLAP_WEIGHT
     + f.class_overlap_score * SIMILARITY_WEIGHT
     + f.status_strength_score * STATUS_STRENGTH_WEIGHT
     + f.use_commerce_score * USE_COMMERCE_WEIGHT) \div 100

\* variant: use in commerce weighted like status strength (weights sum to 1.1)
weighted_score_heavy(f) ==
    (f.similarity_score * SIMILARITY_WEIGHT
     + f.class_overlap_score * CLASS_OVERLAP_WEIGHT
     + f.status_strength_score * STATUS_STRENGTH_WEIGHT
     + f.use_commerce_score * STATUS_STRENGTH_WEIGHT) \div 100

\* the weighted overall score, risk_scorer.py:91-96
weighted_score(f) ==
    (f.similarity_score * SIMILARITY_WEIGHT
     + f.class_overlap_score * CLASS_OVERLAP_WEIGHT
     + f.status_strength_score * STATUS_STRENGTH_WEIGHT
     + f.use_commerce_score * USE_COMMERCE_WEIGHT) \div 100

\* variant: the elevation granted whatever the status
famous_override_any_status(tm, f, overall_score) ==
    IF is_famous_mark(tm.mark_text) /\ f.similarity_score >= Score(80)
    THEN Max2(overall_score, Score(95))
    ELSE overall_score

\* variant: no elevation
famous_override_none(tm, f, overall_score) == overall_score

\* the famous-mark elevation, risk_scorer.py:102-106
famous_override(tm, f, overall_score) ==
    IF is_famous_mark(tm.mark_text)
       /\ f.similarity_score >= Score(80)
       /\ tm.status = "registered"
    THEN Max2(overall_score, Score(95))
    ELSE overall_score

\* Field(..., ge=0, le=100) on each field of RiskFactors
RiskFactorsValid(f) ==
    /\ f.similarity_score >= 0 /\ f.similarity_score <= Score(100)
    /\ f.class_overlap_score >= 0 /\ f.class_overlap_score <= Score(100)
    /\ f.status_strength_score >= 0 /\ f.status_strength_score <= Score(100)
    /\ f.use_commerce_score >= 0 /\ f.use_commerce_score <= Score(100)

\* variant: exclusive lower bounds
get_risk_level_exclusive(score) ==
    IF score > Score(90) THEN "critical"
    ELSE IF score > Score(70) THEN "high"
    ELSE IF score > Score(40) THEN "medium"
    ELSE "low"

get_risk_level(score) ==
    IF score >= Score(90) THEN "critical"
    ELSE IF score >= Score(70) THEN "high"
    ELSE IF score >= Score(40) THEN "medium"
    ELSE "low"

\* the four factor scores computed at risk_scorer.py:81-88
factor_scores(query_arg, tm, qclasses, sim) ==
    [ similarity_score |-> sim,
      class_overlap_score |->
          calculate_class_overlap_score(qclasses, tm.international_classes, sim),
      status_strength_score |-> calculate_status_strength_score(tm),
      use_commerce_score |-> calculate_use_commerce_score(tm) ]

--------------------------------------------------------------------------
(* RiskScorer.get_conflict_reason *)

\* A built string is the sequence of its pieces: a literal of the source is
\* one piece, a character of an interpolated text is one piece, and string
\* concatenation is \o.

RECURSIVE join(_, _)
\* sep.join(parts), parts a sequence of piece sequences
join(sep, parts) ==
    IF parts = <<>> THEN <<>>
    ELSE IF Len(parts) = 1 THEN parts[1]
    ELSE parts[1] \o <<sep>> \o join(sep, Tail(parts))

\* the class codes, each the sequence of its characters
class_pieces(classes) == [ i \in 1..Len(classes) |-> classes[i] ]

similarity_reason(tm, f) ==
    IF f.similarity_score >= Score(80)
    THEN << <<"Very similar to '">> \o tm.mark_text \o <<"'">> >>
    ELSE IF f.similarity_score >= Score(60)
    THEN << <<"Similar to '">> \o tm.mark_text \o <<"'">> >>
    ELSE <<>>

status_reason(tm) ==
    IF tm.status = "registered" THEN << <<"Active registered trademark">> >>
    ELSE IF tm.status = "pending" THEN << <<"Pending application">> >>
    ELSE <<>>

\* variant: the class clause left out for a candidate without classes
class_reason_needs_classes(tm, f) ==
    IF f.class_overlap_score >= Score(80) /\ tm.international_classes # <<>>
    THEN << <<"Same product/service class (">>
            \o join(", ", class_pieces(tm.international_classes))
            \o <<")">> >>
    ELSE <<>>

class_reason(tm, f) ==
    IF f.class_overlap_score >= Score(80)
    THEN << <<"Same product/service class (">>
            \o join(", ", class_pieces(tm.international_classes))
            \o <<")">> >>
    ELSE <<>>

\* variant: the status clause appended before the similarity clause
get_conflict_reason_status_first(query_arg, tm, f) ==
    LET reasons == status_reason(tm) \o similarity_reason(tm, f)
                   \o class_reason(tm, f)
    IN  IF reasons = <<>>
        THEN join("; ", << <<"Potential similarity detected">> >>)
        ELSE join("; ", reasons)

get_conflict_reason(query_arg, tm, f) ==
    LET reasons == similarity_reason(tm, f) \o status_reason(tm)
                   \o class_reason(tm, f)
    IN  IF reasons = <<>>
        THEN join("; ", << <<"Potential similarity detected">> >>)
        ELSE join("; ", reasons)

--------------------------------------------------------------------------
(* Tiering in analyze_trademark, AIAnalyzer.generate_summary *)

\* no search made
NoAnswer == [ outcome |-> "unset", items |-> <<>> ]

\* no TSDR lookup made yet
NoTsdr ==
    [ outcome |-> "unset", owner_name |-> "", international_classes |-> <<>>,
      goods_services_description |-> "" ]

NoTiers == [ critical |-> <<>>, high |-> <<>>, medium |-> <<>>, low |-> <<>> ]

\* [r for r in risk_analyses if r.risk_level.value == level]
tier(analyses, level) == SelectSeq(analyses, LAMBDA r : r.risk_level = level)

\* variant: the medium list built with the filter of the high list
organize_by_tier_medium_as_high(analyses) ==
    [ critical |-> tier(analyses, "critical"),
      high |-> tier(analyses, "high"),
      medium |-> tier(analyses, "high"),
      low |-> tier(analyses, "low") ]

organize_by_tier(analyses) ==
    [ critical |-> tier(analyses, "critical"),
      high |-> tier(analyses, "high"),
      medium |-> tier(analyses, "medium"),
      low |-> tier(analyses, "low") ]

\* sum(1 for r in risk_analyses if r.risk_level == level)
count_level(analyses, level) ==
    Cardinality({ i \in DOMAIN analyses : analyses[i].risk_level = level })

\* variant: the high count taken with the test of the critical count
risk_distribution_high_as_critical(analyses) ==
    [ critical |-> count_level(analyses, "critical"),
      high |-> count_level(analyses, "critical"),
      medium |-> count_level(analyses, "medium"),
      low |-> count_level(analyses, "low") ]

risk_distribution(analyses) ==
    [ critical |-> count_level(analyses, "critical"),
      high |-> count_level(analyses, "high"),
      medium |-> count_level(analyses, "medium"),
      low |-> count_level(analyses, "low") ]

\* variant: low assessments counted with the medium ones
overall_risk_counting_low(dist) ==
    IF dist.critical > 0 THEN "critical"
    ELSE IF dist.high >= 2 THEN "high"
    ELSE IF dist.high >= 1 \/ dist.medium + dist.low >= 3 THEN "medium"
    ELSE "low"

\* variant: three low assessments outweigh everything else
overall_risk_diluted(dist) ==
    IF dist.low >= 3 THEN "low"
    ELSE IF dist.critical > 0 THEN "critical"
    ELSE IF dist.high >= 2 THEN "high"
    ELSE IF dist.high >= 1 \/ dist.medium >= 3 THEN "medium"
    ELSE "low"

\* variant: the two-high test made before the critical test
overall_risk_high_first(dist) ==
    IF dist.high >= 2 THEN "high"
    ELSE IF dist.critical > 0 THEN "critical"
    ELSE IF dist.high >= 1 \/ dist.medium >= 3 THEN "medium"
    ELSE "low"

overall_risk(dist) ==
    IF dist.critical > 0 THEN "critical"
    ELSE IF dist.high >= 2 THEN "high"
    ELSE IF dist.high >= 1 \/ dist.medium >= 3 THEN "medium"
    ELSE "low"

\* what the text-generation call may do: answer with a JSON object of the
\* wanted fields, answer with a JSON object whose fields are of other types,
\* answer with a text that is no JSON, or raise
AiOutcomes == { "json", "json_bad_fields", "not_json", "raises" }

\* _parse_summary_response: the parsed object, or the default dictionary
\* with the whole text as summary when the text cannot be parsed
parse_summary_response(ai) ==
    IF ai = "not_json"
    THEN [ summary |-> "response text", fields_valid |-> TRUE ]
    ELSE [ summary |-> "parsed summary", fields_valid |-> ai = "json" ]

\* the try block of ai_analyzer.py:62-88 ends without an exception
try_block_succeeds(ai) ==
    ai # "raises" /\ parse_summary_response(ai).fields_valid

\* variant: the fallback summary built from an empty distribution
generate_summary_blank_fallback(analyses, ai) ==
    IF try_block_succeeds(ai)
    THEN [ total_results |-> Len(analyses),
           overall_risk_level |-> overall_risk(risk_distribution(analyses)),
           risk_distribution |-> risk_distribution(analyses),
           summary |-> parse_summary_response(ai).summary,
           generated_by |-> "ai" ]
    ELSE [ total_results |-> Len(analyses),
           overall_risk_level |-> overall_risk(risk_distribution(<<>>)),
           risk_distribution |-> risk_distribution(<<>>),
           summary |-> "fallback text",
           generated_by |-> "fallback" ]

\* the SearchResultsSummary returned: built from the answer of the
\* text-generation call, or by _generate_fallback_summary when the try
\* block raised
generate_summary(analyses, ai) ==
    IF try_block_succeeds(ai)
    THEN [ total_results |-> Len(analyses),
           overall_risk_level |-> overall_risk(risk_distribution(analyses)),
           risk_distribution |-> risk_distribution(analyses),
           summary |-> parse_summary_response(ai).summary,
           generated_by |-> "ai" ]
    ELSE [ total_results |-> Len(analyses),
           overall_risk_level |-> overall_risk(risk_distribution(analyses)),
           risk_distribution |-> risk_distribution(analyses),
           summary |-> "fallback text",
           generated_by |-> "fallback" ]

--------------------------------------------------------------------------
(* USPTOClient.search_trademarks *)

\* the Trademarks of the parsable items among the first limit items
parsed_trademarks(items, limit) ==
    LET first == SubSeq(items, 1, Min2(limit, Len(items)))
        good == SelectSeq(first, LAMBDA it : it.parsed)
    IN  [ i \in 1..Len(good) |-> good[i].trademark ]

\* variant: an error of the request left to the caller
search_trademarks_propagating(answer, limit) ==
    IF answer.outcome = "http_error" THEN Err("HTTPStatusError")
    ELSE IF answer.outcome = "other_error" THEN Err("Exception")
    ELSE IF answer.outcome = "no_items" THEN Ok(<<>>)
    ELSE Ok(parsed_trademarks(answer.items, limit))

search_trademarks(answer, limit) ==
    IF answer.outcome = "http_error" THEN Ok(<<>>)
    ELSE IF answer.outcome = "other_error" THEN Ok(<<>>)
    ELSE IF answer.outcome = "no_items" THEN Ok(<<>>)
    ELSE Ok(parsed_trademarks(answer.items, limit))

--------------------------------------------------------------------------
(* analyze_trademark *)

\* the declared fields of SearchQuery, trademark.py:59-63
SearchQueryFields == {"query", "search_type", "limit"}

\* SearchQuery built from a request body: the declared fields with their
\* defaults; a key of the body that is no field is ignored
SearchQuery(body) ==
    [ f \in SearchQueryFields |->
        IF f \in DOMAIN body THEN body[f]
        ELSE IF f = "search_type" THEN "text" ELSE 50 ]

NoFactors ==
    [ similarity_score |-> 0, class_overlap_score |-> 0,
      status_strength_score |-> 0, use_commerce_score |-> 0 ]

\* attribute access on a model object
getattr(obj, name) ==
    IF name \in DOMAIN obj THEN Ok(obj[name]) ELSE Err("AttributeError")

\* calculate_risk_score as a function of its arguments, both libraries
\* installed
calculate_risk_score(query_arg, tm, qclasses) ==
    LET r == calculate_similarity_score(query_arg, tm.mark_text)
        f == factor_scores(query_arg, tm, qclasses, r.val)
    IN  IF r.err # NoError THEN [ err |-> r.err, score |-> 0, factors |-> NoFactors ]
        ELSE IF ~RiskFactorsValid(f)
        THEN [ err |-> ValidationError, score |-> 0, factors |-> NoFactors ]
        ELSE [ err |-> NoError,
               score |-> famous_override(tm, f, weighted_score(f)),
               factors |-> f ]

\* variant: the TSDR values written without the tests for emptiness
enrich_unguarded(tm, tsdr) ==
    IF tsdr.outcome # "data" THEN tm
    ELSE [ tm EXCEPT
             !.owner_name = tsdr.owner_name,
             !.international_classes = tsdr.international_classes,
             !.goods_services_description = tsdr.goods_services_description ]

\* the fields the TSDR lookup may overwrite, analysis.py:84-95
enrich(tm, tsdr) ==
    IF tsdr.outcome # "data" THEN tm
    ELSE [ tm EXCEPT
             !.owner_name = IF tsdr.owner_name # "" THEN tsdr.owner_name ELSE @,
             !.international_classes =
                 IF tsdr.international_classes # <<>>
                 THEN tsdr.international_classes ELSE @,
             !.goods_services_description =
                 IF tsdr.goods_services_description # ""
                 THEN tsdr.goods_services_description ELSE @ ]

\* TrademarkRiskAnalysis(...) of analysis.py:120-135: filing_date and
\* registration_date are Optional[str] fields handed Optional[date] values
TrademarkRiskAnalysisValid(tm, score) ==
    /\ score >= Score(0)
    /\ score <= Score(100)
    /\ tm.filing_date = NoValue
    /\ tm.registration_date = NoValue

TrademarkRiskAnalysis(tm, score, level, factors, reason) ==
    [ serial_number |-> tm.serial_number,
      mark_text |-> tm.mark_text,
      owner_name |-> tm.owner_name,
      risk_score |-> score,
      risk_level |-> level,
      risk_factors |-> factors,
      conflict_reason |-> reason,
      international_classes |-> tm.international_classes,
      status |-> tm.status ]

\* the response of analysis.py:51-75
EmptyResponse ==
    [ status_code |-> 200,
      summary |-> [ total_results |-> 0,
                    overall_risk_level |-> "low",
                    risk_distribution |-> [ critical |-> 0, high |-> 0,
                                            medium |-> 0, low |-> 0 ],
                    summary |-> "no trademarks text",
                    generated_by |-> "handler" ],
      results_by_tier |-> NoTiers,
      total_analyzed |-> 0 ]

\* the response of analysis.py:156-162
AnalysisResponse(analyses, tiers, summ) ==
    [ status_code |-> 200,
      summary |-> summ,
      results_by_tier |-> tiers,
      total_analyzed |-> Len(analyses) ]

\* HTTPException(status_code=500, ...) of analysis.py:166-170
Http500(e) == [ status_code |-> 500, detail |-> e ]

--------------------------------------------------------------------------
(* USPTOClient._parse_status_string *)

\* the dict status_map, uspto.py:134-146
status_map ==
    { [ key |-> <<"R", "E", "G", "I", "S", "T", "E", "R", "E", "D">>, status |-> "registered" ],
      [ key |-> <<"R", "E", "G">>, status |-> "registered" ],
      [ key |-> <<"L", "I", "V", "E">>, status |-> "registered" ],
      [ key |-> <<"P", "E", "N", "D", "I", "N", "G">>, status |-> "pending" ],
      [ key |-> <<"P", "U", "B">>, status |-> "pending" ],
      [ key |-> <<"P", "U", "B", "L", "I", "S", "H", "E", "D">>, status |-> "pending" ],
      [ key |-> <<"A", "B", "A", "N", "D", "O", "N", "E", "D">>, status |-> "abandoned" ],
      [ key |-> <<"D", "E", "A", "D">>, status |-> "abandoned" ],
      [ key |-> <<"C", "A", "N", "C", "E", "L", "L", "E", "D">>, status |-> "cancelled" ],
      [ key |-> <<"C", "A", "N", "C", "E", "L", "E", "D">>, status |-> "cancelled" ],
      [ key |-> <<"E", "X", "P", "I", "R", "E", "D">>, status |-> "expired" ] }

\* variant: status_map[status_str.upper()], a KeyError for a missing key
parse_status_string_strict(s) ==
    IF s = <<>> THEN Ok("unknown")
    ELSE IF \E e \in status_map : e.key = upper(s)
    THEN Ok((CHOOSE e \in status_map : e.key = upper(s)).status)
    ELSE Err("KeyError")

\* an absent (None) status is the empty text here: `not status_str` holds
\* of both
parse_status_string(s) ==
    IF s = <<>> THEN Ok("unknown")
    ELSE IF \E e \in status_map : e.key = upper(s)
    THEN Ok((CHOOSE e \in status_map : e.key = upper(s)).status)
    ELSE Ok("unknown")

--------------------------------------------------------------------------
(* Inputs *)

\* the assessment lists of up to MaxBatch candidates; the serial number of
\* an assessment is its position in the list
Batches ==
    UNION { { [ i \in 1..n |-> [ serial_number |-> i, risk_level |-> lv[i] ] ] :
              lv \in [1..n -> RiskLevel] } : n \in 0..MaxBatch }

\* request bodies: a query text, a limit, and possibly a list of classes
RequestBodies ==
    { [ query |-> q, limit |-> l ] : q \in {<<"A">>, <<"A", "x">>}, l \in {1, 50} }
    \cup { [ query |-> q, limit |-> l, classes |-> << <<"0", "0", "9">> >> ] :
              q \in {<<"A">>, <<"A", "x">>}, l \in {1, 50} }

\* the candidates a search may deliver, without their serial numbers
FoundMarks ==
    { [ mark_text |-> <<"A">>, owner_name |-> "O", status |-> "registered",
        international_classes |-> << <<"0", "0", "9">> >>,
        goods_services_description |-> "", filing_date |-> NoValue,
        registration_date |-> NoValue ],
      [ mark_text |-> <<"A", "x">>, owner_name |-> "Unknown",
        status |-> "pending", international_classes |-> <<>>,
        goods_services_description |-> "", filing_date |-> "date",
        registration_date |-> NoValue ],
      [ mark_text |-> <<"X">>, owner_name |-> "O", status |-> "unknown",
        international_classes |-> << <<"0", "0", "9">>, <<"0", "3", "5">> >>,
        goods_services_description |-> "G", filing_date |-> NoValue,
        registration_date |-> NoValue ] }

\* the record of a found mark with the serial number n
WithSerial(m, n) ==
    [ serial_number |-> n, mark_text |-> m.mark_text,
      owner_name |-> m.owner_name, status |-> m.status,
      international_classes |-> m.international_classes,
      goods_services_description |-> m.goods_services_description,
      filing_date |-> m.filing_date,
      registration_date |-> m.registration_date ]

\* an item of the answer: the Trademark _parse_rapidapi_result makes of it,
\* or an item it cannot parse; the serial number of an item is its position
SearchItems(n) ==
    { [ i \in 1..n |-> [ parsed |-> ps[i], trademark |-> WithSerial(ms[i], i) ] ] :
        ms \in [1..n -> FoundMarks], ps \in [1..n -> BOOLEAN] }

\* what the search API may answer: an error status, a failure of the
\* request or of decoding, a body without items, or a list of items
SearchAnswers ==
    { [ outcome |-> o, items |-> <<>> ] :
        o \in {"http_error", "other_error", "no_items"} }
    \cup { [ outcome |-> "items", items |-> its ] :
             its \in UNION { SearchItems(n) : n \in 0..MaxResults } }

\* what get_trademark_by_serial may deliver for a candidate
TsdrResults ==
    { [ outcome |-> "raise", owner_name |-> "", international_classes |-> <<>>,
        goods_services_description |-> "" ],
      [ outcome |-> "none", owner_name |-> "", international_classes |-> <<>>,
        goods_services_description |-> "" ],
      [ outcome |-> "data", owner_name |-> "T",
        international_classes |-> << <<"0", "3", "5">> >>,
        goods_services_description |-> "S" ],
      [ outcome |-> "data", owner_name |-> "T", international_classes |-> <<>>,
        goods_services_description |-> "" ] }

\* the candidates scored again and again in SpecRepeat
RepeatCandidates ==
    << [ mark_text |-> <<"X">>, status |-> "registered",
         international_classes |-> << <<"0", "0", "9">> >> ],
       [ mark_text |-> <<"A", "X">>, status |-> "pending",
         international_classes |-> <<>> ],
       [ mark_text |-> <<"A">>, status |-> "unknown",
         international_classes |-> << <<"0", "0", "9">>, <<"0", "3", "5">> >> ] >>

\* factor values on and next to the thresholds of get_conflict_reason
ReasonGrid == { k * (Unit \div 10) : k \in {0, 599, 600, 799, 800, 1000} }

\* status texts of search results drawn in SpecParse
SampleStatusTexts ==
    { <<>>,
      <<"R", "E", "G", "I", "S", "T", "E", "R", "E", "D">>,
      <<"r", "e", "g", "i", "s", "t", "e", "r", "e", "d">>,
      <<"L", "i", "v", "e">>,
      <<"R", "E", "G">>,
      <<"p", "e", "n", "d", "i", "n", "g">>,
      <<"P", "U", "B">>,
      <<"P", "u", "b", "l", "i", "s", "h", "e", "d">>,
      <<"A", "B", "A", "N", "D", "O", "N", "E", "D">>,
      <<"d", "e", "a", "d">>,
      <<"C", "A", "N", "C", "E", "L", "L", "E", "D">>,
      <<"C", "a", "n", "c", "e", "l", "e", "d">>,
      <<"E", "X", "P", "I", "R", "E", "D">>,
      <<"e", "x", "p", "i", "r", "e", "d", " ">>,
      <<" ", "L", "I", "V", "E">>,
      <<"U", "N", "K", "N", "O", "W", "N">>,
      <<"u", "n", "k", "n", "o", "w", "n">>,
      <<"F", "O", "O">>,
      <<"R", "E", "G", "I", "S", "T", "R", "E", "D">> }

\* proposed marks and candidate mark texts drawn in Spec and SpecAgg
SampleQueries ==
    { <<"x">>, <<"X", "X">>, <<"X", "A">>, <<"A">>, <<>>, <<"A", "X", " ">> }

SampleMarks == { <<"X">>, <<" ", "x">>, <<"A", "X">>, <<"A">> }

\* class codes a user can type, and the zero-padded codes the retrieval
\* client stores (uspto.py:105-109, :221)
QueryClassCodes == { <<"9">>, <<"0", "0", "9">>, <<"3", "5">> }

ClassLists(n) == UNION {[1..k -> QueryClassCodes] : k \in 0..n}

MarkClassLists ==
    { <<>>, << <<"0", "0", "9">> >>, << <<"0", "0", "9">>, <<"0", "3", "5">> >> }

Candidates ==
    [ mark_text : SampleMarks,
      status : TrademarkStatus,
      international_classes : MarkClassLists ]

\* factor values drawn in SpecAgg
FactorGrid == { Score(0), Score(50), Score(80), Score(100) }

\* similarity scores drawn in SpecOverlap: the band limits 60, 80 and 95,
\* a tenth of a point below each, and 0, 96 and 100
SimilarityGrid ==
    { k * (Unit \div 10) : k \in {0, 599, 600, 799, 800, 949, 950, 960, 1000} }

\* scores drawn in SpecLevel: every tenth of a point from 0.0 to 100.0
ScoreGrid == { k * (Unit \div 10) : k \in 0..1000 }

\* the variables no call has written yet
ExtraIdle ==
    /\ class_overlap_score = 0
    /\ status_str = <<>>
    /\ conflict_reason = <<>>
    /\ risk_analyses = <<>>
    /\ results_by_tier = NoTiers
    /\ summary = NoValue
    /\ request = NoValue
    /\ trademarks = <<>>
    /\ response = NoValue
    /\ loop_index = 0
    /\ tsdr_data = NoTsdr
    /\ search_answer = NoAnswer

--------------------------------------------------------------------------
(* Initial states *)

\* a caller about to score one (query, candidate) pair
Init ==
    /\ pc = "call_score"
    /\ HAS_LEVENSHTEIN \in BOOLEAN
    /\ HAS_JELLYFISH \in BOOLEAN
    /\ query \in SampleQueries
    /\ trademark \in Candidates
    /\ query_classes \in ClassLists(MaxClasses)
    /\ similarity_score = 0
    /\ risk_factors = NoFactors
    /\ risk_score = 0
    /\ risk_level = NoValue
    /\ raised = NoError
    /\ ExtraIdle

\* a caller about to compare two texts
InitSim ==
    /\ pc = "call_similarity"
    /\ HAS_LEVENSHTEIN \in BOOLEAN
    /\ HAS_JELLYFISH \in BOOLEAN
    /\ query \in Strings(MaxLen)
    /\ \E t \in Strings(MaxLen) :
           trademark = [ mark_text |-> t, status |-> "unknown",
                         international_classes |-> <<>> ]
    /\ query_classes = <<>>
    /\ similarity_score = 0
    /\ risk_factors = NoFactors
    /\ risk_score = 0
    /\ risk_level = NoValue
    /\ raised = NoError
    /\ ExtraIdle

\* the four factors already computed, about to be aggregated
InitAgg ==
    /\ pc = "call_aggregate"
    /\ HAS_LEVENSHTEIN = TRUE
    /\ HAS_JELLYFISH = TRUE
    /\ query = <<>>
    /\ \E t \in { <<"X">>, <<"A">> }, st \in TrademarkStatus :
           trademark = [ mark_text |-> t, status |-> st,
                         international_classes |-> <<>> ]
    /\ query_classes = <<>>
    /\ similarity_score = 0
    /\ risk_factors \in [ similarity_score : FactorGrid,
                          class_overlap_score : FactorGrid,
                          status_strength_score : FactorGrid,
                          use_commerce_score : FactorGrid ]
    /\ risk_score = 0
    /\ risk_level = NoValue
    /\ raised = NoError
    /\ ExtraIdle

\* a similarity score in hand, about to be turned into a class overlap score
InitOverlap ==
    /\ pc = "call_overlap"
    /\ HAS_LEVENSHTEIN = TRUE
    /\ HAS_JELLYFISH = TRUE
    /\ query = <<>>
    /\ \E cl \in MarkClassLists :
           trademark = [ mark_text |-> <<>>, status |-> "unknown",
                         international_classes |-> cl ]
    /\ query_classes \in ClassLists(MaxClasses)
    /\ similarity_score \in SimilarityGrid
    /\ risk_factors = NoFactors
    /\ risk_score = 0
    /\ risk_level = NoValue
    /\ raised = NoError
    /\ ExtraIdle

\* a search result whose status text is about to be parsed; the candidate
\* built from it is scored next
InitParse ==
    /\ pc = "call_parse_status"
    /\ HAS_LEVENSHTEIN = TRUE
    /\ HAS_JELLYFISH = TRUE
    /\ query \in SampleQueries
    /\ \E t \in SampleMarks, cl \in MarkClassLists :
           trademark = [ mark_text |-> t, status |-> NoValue,
                         international_classes |-> cl ]
    /\ query_classes = <<>>
    /\ similarity_score = 0
    /\ risk_factors = NoFactors
    /\ risk_score = 0
    /\ risk_level = NoValue
    /\ raised = NoError
    /\ class_overlap_score = 0
    /\ status_str \in SampleStatusTexts
    /\ conflict_reason = <<>>
    /\ risk_analyses = <<>>
    /\ results_by_tier = NoTiers
    /\ summary = NoValue
    /\ request = NoValue
    /\ trademarks = <<>>
    /\ response = NoValue
    /\ loop_index = 0
    /\ tsdr_data = NoTsdr
    /\ search_answer = NoAnswer

\* a candidate and its factor record, about to be explained
InitReason ==
    /\ pc = "call_reason"
    /\ HAS_LEVENSHTEIN = TRUE
    /\ HAS_JELLYFISH = TRUE
    /\ query = <<"A">>
    /\ trademark \in Candidates
    /\ query_classes = <<>>
    /\ similarity_score = 0
    /\ \E sim \in ReasonGrid, ov \in ReasonGrid :
           risk_factors = [ similarity_score |-> sim,
                            class_overlap_score |-> ov,
                            status_strength_score |->
                                calculate_status_strength_score(trademark),
                            use_commerce_score |->
                                calculate_use_commerce_score(trademark) ]
    /\ risk_score = 0
    /\ risk_level = NoValue
    /\ raised = NoError
    /\ ExtraIdle

\* the assessments of a batch, about to be tiered and summarised
InitBatch ==
    /\ pc = "call_tier"
    /\ HAS_LEVENSHTEIN = TRUE
    /\ HAS_JELLYFISH = TRUE
    /\ query = <<"A">>
    /\ trademark = [ mark_text |-> <<"A">>, status |-> "unknown",
                     international_classes |-> <<>> ]
    /\ query_classes = <<>>
    /\ similarity_score = 0
    /\ risk_factors = NoFactors
    /\ risk_score = 0
    /\ risk_level = NoValue
    /\ raised = NoError
    /\ class_overlap_score = 0
    /\ status_str = <<>>
    /\ conflict_reason = <<>>
    /\ risk_analyses \in Batches
    /\ results_by_tier = NoTiers
    /\ summary = NoValue
    /\ request = NoValue
    /\ trademarks = <<>>
    /\ response = NoValue
    /\ loop_index = 0
    /\ tsdr_data = NoTsdr
    /\ search_answer = NoAnswer

\* a request handed to analyze_trademark
InitAnalyze ==
    /\ pc = "call_search"
    /\ HAS_LEVENSHTEIN = TRUE
    /\ HAS_JELLYFISH = TRUE
    /\ query = <<"A">>
    /\ trademark = [ mark_text |-> <<"A">>, status |-> "unknown",
                     international_classes |-> <<>> ]
    /\ query_classes = <<>>
    /\ similarity_score = 0
    /\ risk_factors = NoFactors
    /\ risk_score = 0
    /\ risk_level = NoValue
    /\ raised = NoError
    /\ class_overlap_score = 0
    /\ status_str = <<>>
    /\ conflict_reason = <<>>
    /\ risk_analyses = <<>>
    /\ results_by_tier = NoTiers
    /\ summary = NoValue
    /\ \E body \in RequestBodies : request = SearchQuery(body)
    /\ trademarks = <<>>
    /\ response = NoValue
    /\ loop_index = 0
    /\ tsdr_data = NoTsdr
    /\ search_answer \in SearchAnswers

\* one scorer, a query and some candidates to be scored in any order, any
\* number of times
InitRepeat ==
    /\ pc = "call_score"
    /\ HAS_LEVENSHTEIN \in BOOLEAN
    /\ HAS_JELLYFISH \in BOOLEAN
    /\ query \in { <<"x">>, <<"A">> }
    /\ trademarks = RepeatCandidates
    /\ trademark \in { trademarks[i] : i \in DOMAIN trademarks }
    /\ query_classes \in { <<>>, << <<"9">> >> }
    /\ similarity_score = 0
    /\ risk_factors = NoFactors
    /\ risk_score = 0
    /\ risk_level = NoValue
    /\ raised = NoError
    /\ class_overlap_score = 0
    /\ status_str = <<>>
    /\ conflict_reason = <<>>
    /\ risk_analyses = <<>>
    /\ results_by_tier = NoTiers
    /\ summary = NoValue
    /\ request = NoValue
    /\ response = NoValue
    /\ loop_index = 0
    /\ tsdr_data = NoTsdr
    /\ search_answer = NoAnswer

\* an empty batch about to be summarised; assessments are then added one
\* at a time
InitGrow ==
    /\ pc = "call_summary"
    /\ HAS_LEVENSHTEIN = TRUE
    /\ HAS_JELLYFISH = TRUE
    /\ query = <<"A">>
    /\ trademark = [ mark_text |-> <<"A">>, status |-> "unknown",
                     international_classes |-> <<>> ]
    /\ query_classes = <<>>
    /\ similarity_score = 0
    /\ risk_factors = NoFactors
    /\ risk_score = 0
    /\ risk_level = NoValue
    /\ raised = NoError
    /\ ExtraIdle

\* a query and a candidate about to be scored, classified and explained
InitExplain ==
    /\ pc = "call_score"
    /\ HAS_LEVENSHTEIN = TRUE
    /\ HAS_JELLYFISH = TRUE
    /\ query \in SampleQueries
    /\ trademark \in Candidates
    /\ query_classes \in { <<>>, << <<"9">> >>, << <<"3", "5">> >> }
    /\ similarity_score = 0
    /\ risk_factors = NoFactors
    /\ risk_score = 0
    /\ risk_level = NoValue
    /\ raised = NoError
    /\ ExtraIdle

\* a score in hand, about to be classified
InitLevel ==
    /\ pc = "scored"
    /\ HAS_LEVENSHTEIN = TRUE
    /\ HAS_JELLYFISH = TRUE
    /\ query = <<>>
    /\ trademark = [ mark_text |-> <<>>, status |-> "unknown",
                     international_classes |-> <<>> ]
    /\ query_classes = <<>>
    /\ similarity_score = 0
    /\ risk_factors = NoFactors
    /\ risk_score \in ScoreGrid
    /\ risk_level = NoValue
    /\ raised = NoError
    /\ ExtraIdle

--------------------------------------------------------------------------
(* Actions *)

\* one call of calculate_similarity_score(query, trademark.mark_text)
CalculateSimilarity ==
    /\ pc = "call_similarity"
    /\ LET r == calculate_similarity_score(query, trademark.mark_text)
       IN  /\ raised' = r.err
           /\ similarity_score' = r.val
           /\ pc' = IF r.err = NoError THEN "similarity_done" ELSE "failed"
    /\ UNCHANGED << HAS_LEVENSHTEIN, HAS_JELLYFISH, query, trademark,
                    query_classes, risk_factors, risk_score, risk_level >>
    /\ UNCHANGED extraVars

\* one call of calculate_class_overlap_score(query_classes,
\* trademark.international_classes, similarity_score)
CalculateClassOverlap ==
    /\ pc = "call_overlap"
    /\ class_overlap_score' =
           calculate_class_overlap_score(query_classes,
                                         trademark.international_classes,
                                         similarity_score)
    /\ pc' = "overlap_done"
    /\ UNCHANGED << HAS_LEVENSHTEIN, HAS_JELLYFISH, query, trademark,
                    query_classes, similarity_score, risk_factors, risk_score,
                    risk_level, raised, status_str, conflict_reason,
                    risk_analyses, results_by_tier, summary, request,
                    trademarks, response, loop_index,
                    tsdr_data, search_answer >>

\* one call of _parse_status_string(status_str), uspto.py:95
ParseStatusString ==
    /\ pc = "call_parse_status"
    /\ LET r == parse_status_string(status_str)
       IN  IF r.err # NoError
           THEN /\ raised' = r.err
                /\ pc' = "failed"
                /\ UNCHANGED trademark
           ELSE /\ raised' = NoError
                /\ pc' = "call_score"
                /\ trademark' = [trademark EXCEPT !.status = r.val]
    /\ UNCHANGED << HAS_LEVENSHTEIN, HAS_JELLYFISH, query, query_classes,
                    similarity_score, risk_factors, risk_score, risk_level >>
    /\ UNCHANGED extraVars

\* one call of get_conflict_reason(query, trademark, risk_factors)
GetConflictReason ==
    /\ pc = "call_reason"
    /\ conflict_reason' = get_conflict_reason(query, trademark, risk_factors)
    /\ pc' = "explained"
    /\ UNCHANGED << HAS_LEVENSHTEIN, HAS_JELLYFISH, query, trademark,
                    query_classes, similarity_score, risk_factors, risk_score,
                    risk_level, raised, class_overlap_score, status_str,
                    risk_analyses, results_by_tier, summary, request,
                    trademarks, response, loop_index,
                    tsdr_data, search_answer >>

\* step 3 of analyze_trademark, analysis.py:139-145
OrganizeByTier ==
    /\ pc = "call_tier"
    /\ results_by_tier' = organize_by_tier(risk_analyses)
    /\ pc' = "call_summary"
    /\ UNCHANGED << HAS_LEVENSHTEIN, HAS_JELLYFISH, query, trademark,
                    query_classes, similarity_score, risk_factors, risk_score,
                    risk_level, raised, class_overlap_score, status_str,
                    conflict_reason, risk_analyses, summary, request,
                    trademarks, response, loop_index,
                    tsdr_data, search_answer >>

\* one call of generate_summary(query, risk_analyses); whether the AI call
\* succeeds is not decided by the program
GenerateSummary ==
    /\ pc = "call_summary"
    /\ \E ai \in AiOutcomes :
           summary' = generate_summary(risk_analyses, ai)
    /\ pc' = "summarised"
    /\ UNCHANGED << HAS_LEVENSHTEIN, HAS_JELLYFISH, query, trademark,
                    query_classes, similarity_score, risk_factors, risk_score,
                    risk_level, raised, class_overlap_score, status_str,
                    conflict_reason, risk_analyses, results_by_tier, request,
                    trademarks, response, loop_index,
                    tsdr_data, search_answer >>

\* analysis.py:41-75: the search, and the response when it found nothing
SearchTrademarks ==
    /\ pc = "call_search"
    /\ LET found == search_trademarks(search_answer, request.limit)
       IN  IF found.err # NoError
           THEN /\ raised' = found.err
                /\ response' = Http500(found.err)
                /\ pc' = "done"
                /\ UNCHANGED << trademarks, loop_index >>
           ELSE IF found.val = <<>>
           THEN /\ trademarks' = found.val
                /\ response' = EmptyResponse
                /\ pc' = "done"
                /\ UNCHANGED << raised, loop_index >>
           ELSE /\ trademarks' = found.val
                /\ pc' = "enrich"
                /\ loop_index' = 1
                /\ UNCHANGED << raised, response >>
    /\ UNCHANGED << HAS_LEVENSHTEIN, HAS_JELLYFISH, query, trademark,
                    query_classes, similarity_score, risk_factors, risk_score,
                    risk_level, class_overlap_score, status_str,
                    conflict_reason, risk_analyses, results_by_tier, summary,
                    request, tsdr_data, search_answer >>

\* analysis.py:79-100: one turn of the enrichment loop
EnrichCandidate ==
    /\ pc = "enrich"
    /\ \E tsdr \in TsdrResults :
           /\ tsdr_data' = tsdr
           /\ trademarks' = [ trademarks EXCEPT
                                ![loop_index] = enrich(@, tsdr) ]
    /\ IF loop_index < Len(trademarks)
       THEN /\ loop_index' = loop_index + 1
            /\ UNCHANGED pc
       ELSE /\ loop_index' = 1
            /\ pc' = "score"
    /\ UNCHANGED << HAS_LEVENSHTEIN, HAS_JELLYFISH, query, trademark,
                    query_classes, similarity_score, risk_factors, risk_score,
                    risk_level, raised, class_overlap_score, status_str,
                    conflict_reason, risk_analyses, results_by_tier, summary,
                    request, response, search_answer >>

\* analysis.py:106-137: one turn of the scoring loop; an exception leaves
\* the loop for the handler of analysis.py:166-170; after the last turn the
\* steps 3 and 4 and the return of analysis.py:139-162 follow
ScoreCandidate ==
    /\ pc = "score"
    /\ LET tm == trademarks[loop_index]
           \* query.classes or []: an empty value is the empty list
           classes == getattr(request, "classes")
           scored == calculate_risk_score(request.query, tm, classes.val)
           level == get_risk_level(scored.score)
           reason == get_conflict_reason(request.query, tm, scored.factors)
           analyses == Append(risk_analyses,
                              TrademarkRiskAnalysis(tm, scored.score, level,
                                                    scored.factors, reason))
           failure ==
               IF classes.err # NoError THEN classes.err
               ELSE IF scored.err # NoError THEN scored.err
               ELSE IF ~TrademarkRiskAnalysisValid(tm, scored.score)
               THEN ValidationError
               ELSE NoError
       IN  IF failure # NoError
           THEN /\ raised' = failure
                /\ response' = Http500(failure)
                /\ pc' = "done"
                /\ UNCHANGED << risk_analyses, results_by_tier, summary,
                                loop_index >>
           ELSE IF loop_index < Len(trademarks)
           THEN /\ risk_analyses' = analyses
                /\ loop_index' = loop_index + 1
                /\ UNCHANGED << raised, response, pc, results_by_tier,
                                summary >>
           ELSE \E ai \in AiOutcomes :
                /\ risk_analyses' = analyses
                /\ results_by_tier' = organize_by_tier(analyses)
                /\ summary' = generate_summary(analyses, ai)
                /\ response' = AnalysisResponse(analyses, results_by_tier',
                                                summary')
                /\ pc' = "done"
                /\ UNCHANGED << raised, loop_index >>
    /\ UNCHANGED << HAS_LEVENSHTEIN, HAS_JELLYFISH, query, trademark,
                    query_classes, similarity_score, risk_factors, risk_score,
                    risk_level, class_overlap_score, status_str,
                    conflict_reason, request, trademarks, tsdr_data, search_answer >>

\* analysis.py:137 and :106: the results of the call are kept and another
\* candidate, or the same one again, is taken up
NextCandidate ==
    /\ pc = "levelled"
    /\ Len(risk_analyses) < MaxBatch
    /\ risk_analyses' = Append(risk_analyses,
                               [ candidate |-> trademark,
                                 risk_score |-> risk_score,
                                 risk_factors |-> risk_factors,
                                 risk_level |-> risk_level ])
    /\ trademark' \in { trademarks[i] : i \in DOMAIN trademarks }
    /\ pc' = "call_score"
    /\ UNCHANGED << HAS_LEVENSHTEIN, HAS_JELLYFISH, query, query_classes,
                    similarity_score, risk_factors, risk_score, risk_level,
                    raised, class_overlap_score, status_str, conflict_reason,
                    results_by_tier, summary, request, trademarks, response,
                    loop_index, tsdr_data, search_answer >>

\* analysis.py:154-162: the response built from the batch, its tiers and
\* its summary
ReturnResponse ==
    /\ pc = "summarised"
    /\ response' = AnalysisResponse(risk_analyses, results_by_tier, summary)
    /\ pc' = "responded"
    /\ UNCHANGED << HAS_LEVENSHTEIN, HAS_JELLYFISH, query, trademark,
                    query_classes, similarity_score, risk_factors, risk_score,
                    risk_level, raised, class_overlap_score, status_str,
                    conflict_reason, risk_analyses, results_by_tier, summary,
                    request, trademarks, loop_index, tsdr_data, search_answer >>

\* analysis.py:137: one more assessment, of any level, joins the batch,
\* which is then summarised again
AppendAssessment ==
    /\ pc = "summarised"
    /\ Len(risk_analyses) < MaxBatch
    /\ \E lv \in RiskLevel :
           risk_analyses' =
               Append(risk_analyses,
                      [ serial_number |-> Len(risk_analyses) + 1,
                        risk_level |-> lv ])
    /\ pc' = "call_summary"
    /\ UNCHANGED << HAS_LEVENSHTEIN, HAS_JELLYFISH, query, trademark,
                    query_classes, similarity_score, risk_factors, risk_score,
                    risk_level, raised, class_overlap_score, status_str,
                    conflict_reason, results_by_tier, summary, request,
                    trademarks, response, loop_index, tsdr_data,
                    search_answer >>

\* analysis.py:114-118: get_conflict_reason called with the factors that
\* calculate_risk_score returned
ExplainScored ==
    /\ pc = "levelled"
    /\ conflict_reason' = get_conflict_reason(query, trademark, risk_factors)
    /\ pc' = "explained"
    /\ UNCHANGED << HAS_LEVENSHTEIN, HAS_JELLYFISH, query, trademark,
                    query_classes, similarity_score, risk_factors, risk_score,
                    risk_level, raised, class_overlap_score, status_str,
                    risk_analyses, results_by_tier, summary, request,
                    trademarks, response, loop_index, tsdr_data,
                    search_answer >>

\* one call of calculate_risk_score(query, trademark, query_classes)
CalculateRiskScore ==
    /\ pc = "call_score"
    /\ LET r == calculate_similarity_score(query, trademark.mark_text)
           f == factor_scores(query, trademark, query_classes, r.val)
           overall_score == famous_override(trademark, f, weighted_score(f))
       IN  IF r.err # NoError
           THEN /\ raised' = r.err
                /\ pc' = "failed"
                /\ UNCHANGED << similarity_score, risk_factors, risk_score >>
           ELSE IF ~RiskFactorsValid(f)
           THEN /\ raised' = ValidationError
                /\ pc' = "failed"
                /\ similarity_score' = r.val
                /\ UNCHANGED << risk_factors, risk_score >>
           ELSE /\ raised' = NoError
                /\ pc' = "scored"
                /\ similarity_score' = r.val
                /\ risk_factors' = f
                /\ risk_score' = overall_score
    /\ UNCHANGED << HAS_LEVENSHTEIN, HAS_JELLYFISH, query, trademark,
                    query_classes, risk_level >>
    /\ UNCHANGED extraVars

\* risk_scorer.py:90-106 applied to the factors in hand
Aggregate ==
    /\ pc = "call_aggregate"
    /\ risk_score' = famous_override(trademark, risk_factors,
                                     weighted_score(risk_factors))
    /\ pc' = "scored"
    /\ UNCHANGED << HAS_LEVENSHTEIN, HAS_JELLYFISH, query, trademark,
                    query_classes, similarity_score, risk_factors, risk_level,
                    raised >>
    /\ UNCHANGED extraVars

\* one call of get_risk_level(risk_score)
GetRiskLevel ==
    /\ pc = "scored"
    /\ risk_level' = get_risk_level(risk_score)
    /\ pc' = "levelled"
    /\ UNCHANGED << HAS_LEVENSHTEIN, HAS_JELLYFISH, query, trademark,
                    query_classes, similarity_score, risk_factors, risk_score,
                    raised >>
    /\ UNCHANGED extraVars

--------------------------------------------------------------------------
(* Specifications *)

Next == CalculateRiskScore \/ GetRiskLevel

Spec == Init /\ [][Next]_vars

NextSim == CalculateSimilarity

SpecSim == InitSim /\ [][NextSim]_vars

NextAgg == Aggregate \/ GetRiskLevel

SpecAgg == InitAgg /\ [][NextAgg]_vars

NextLevel == GetRiskLevel

SpecLevel == InitLevel /\ [][NextLevel]_vars

NextParse == ParseStatusString \/ CalculateRiskScore \/ GetRiskLevel

SpecParse == InitParse /\ [][NextParse]_vars

NextReason == GetConflictReason

SpecReason == InitReason /\ [][NextReason]_vars

NextBatch == OrganizeByTier \/ GenerateSummary

SpecBatch == InitBatch /\ [][NextBatch]_vars

NextAnalyze == SearchTrademarks \/ EnrichCandidate \/ ScoreCandidate

SpecAnalyze == InitAnalyze /\ [][NextAnalyze]_vars

NextRepeat == CalculateRiskScore \/ GetRiskLevel \/ NextCandidate

SpecRepeat == InitRepeat /\ [][NextRepeat]_vars

NextRespond == OrganizeByTier \/ GenerateSummary \/ ReturnResponse

SpecRespond == InitBatch /\ [][NextRespond]_vars

NextGrow == GenerateSummary \/ AppendAssessment

SpecGrow == InitGrow /\ [][NextGrow]_vars

NextExplain == CalculateRiskScore \/ GetRiskLevel \/ ExplainScored

SpecExplain == InitExplain /\ [][NextExplain]_vars

NextOverlap == CalculateClassOverlap

SpecOverlap == InitOverlap /\ [][NextOverlap]_vars

--------------------------------------------------------------------------
(* Claims *)

Tenths(k) == k * (Unit \div 10)

Scored == pc \in {"scored", "levelled"}

\* the override condition of risk_scorer.py:102-104, on the state
OverrideApplies ==
    /\ strip(upper(trademark.mark_text)) \in FAMOUS_MARKS
    /\ risk_factors.similarity_score >= Score(80)
    /\ trademark.status = "registered"

\* 100 times the weighted sum of the factors returned
WeightedSum100 ==
    40 * risk_factors.similarity_score + 30 * risk_factors.class_overlap_score
    + 20 * risk_factors.status_strength_score + 10 * risk_factors.use_commerce_score

\* C1: get_risk_level maps every score in [0,100] to exactly one level with
\* inclusive lower bounds: >= 90 critical, [70,90) high, [40,70) medium,
\* < 40 low; 90.0 is critical, 89.9 high, 70.0 high, 39.9 low.
C1_LevelBands ==
    pc = "levelled" =>
        /\ risk_level \in RiskLevel
        /\ (risk_level = "critical") <=> (risk_score >= Score(90))
        /\ (risk_level = "high") <=> (risk_score >= Score(70) /\ risk_score < Score(90))
        /\ (risk_level = "medium") <=> (risk_score >= Score(40) /\ risk_score < Score(70))
        /\ (risk_level = "low") <=> (risk_score < Score(40))
        /\ (risk_score = Score(90) => risk_level = "critical")
        /\ (risk_score = Tenths(899) => risk_level = "high")
        /\ (risk_score = Score(70) => risk_level = "high")
        /\ (risk_score = Tenths(399) => risk_level = "low")

C1_Witness ==
    pc = "levelled" /\ risk_score = Score(90) /\ risk_level = "critical"

\* C2: a registered candidate whose normalized mark text is a famous mark and
\* whose similarity to the query is >= 80 gets a score >= 95 and the level
\* critical, whatever the other factors are.
C2_FamousCritical ==
    (Scored /\ OverrideApplies) =>
        /\ risk_score >= Score(95)
        /\ (pc = "levelled" => risk_level = "critical")

\* the override decides: the weighted sum alone is below the critical band
C2_Witness ==
    /\ pc = "levelled"
    /\ OverrideApplies
    /\ WeightedSum100 < 100 * Score(90)
    /\ risk_level = "critical"

\* C3: without the override the score is exactly the weighted sum
\* 0.40*similarity + 0.30*class_overlap + 0.20*status_strength +
\* 0.10*use_commerce of the factors returned; with the override it is the
\* maximum of that sum and 95, so the override never lowers a score.
C3_WeightedSum ==
    Scored =>
        /\ ~OverrideApplies => 100 * risk_score = WeightedSum100
        /\ OverrideApplies =>
               /\ 100 * risk_score >= WeightedSum100
               /\ risk_score >= Score(95)
               /\ (100 * risk_score = WeightedSum100 \/ risk_score = Score(95))

\* both cases are reached: here the override raised the score to 95
C3_Witness ==
    /\ Scored
    /\ OverrideApplies
    /\ risk_score = Score(95)
    /\ WeightedSum100 < 100 * Score(95)

\* C4: the four weights sum to 1.0 (100 hundredths), and the aggregate of
\* four factors in [0,100], with or without the override, is in [0,100].
C4_ScoreInRange ==
    /\ SIMILARITY_WEIGHT + CLASS_OVERLAP_WEIGHT
       + STATUS_STRENGTH_WEIGHT + USE_COMMERCE_WEIGHT = 100
    /\ (Scored /\ RiskFactorsValid(risk_factors)) =>
           (risk_score >= 0 /\ risk_score <= Score(100))

\* the upper end is reached: all four factors at 100 aggregate to 100
C4_Witness ==
    /\ Scored
    /\ risk_factors.similarity_score = Score(100)
    /\ risk_factors.class_overlap_score = Score(100)
    /\ risk_factors.status_strength_score = Score(100)
    /\ risk_factors.use_commerce_score = Score(100)
    /\ risk_score = Score(100)

\* the precondition of C5 on the inputs
C5_Case ==
    /\ strip(upper(query)) = strip(upper(trademark.mark_text))
    /\ trademark.status = "registered"
    /\ query_classes # <<>>
    /\ \A i \in 1..Len(query_classes) :
           \E j \in 1..Len(trademark.international_classes) :
               zfill3(query_classes[i]) = zfill3(trademark.international_classes[j])

\* C5: a query whose normalized text equals a registered candidate's mark
\* text, with a non-empty class list all of whose classes are among the
\* candidate's, scores similarity 100, class overlap 100, status strength
\* 100, use in commerce 80, aggregate 98, level critical.
C5_ExactMatchSameClass ==
    (C5_Case /\ pc # "call_score") =>
        /\ pc \in {"scored", "levelled"}
        /\ risk_factors.similarity_score = Score(100)
        /\ risk_factors.class_overlap_score = Score(100)
        /\ risk_factors.status_strength_score = Score(100)
        /\ risk_factors.use_commerce_score = Score(80)
        /\ risk_score = Score(98)
        /\ (pc = "levelled" => risk_level = "critical")

\* a non-famous mark, the query classes given twice in different padding
C5_Witness ==
    /\ C5_Case
    /\ pc = "levelled"
    /\ strip(upper(trademark.mark_text)) \notin FAMOUS_MARKS
    /\ Len(query_classes) = 2
    /\ query_classes[1] # query_classes[2]
    /\ risk_score = Score(98)

\* C6: texts whose uppercased, trimmed forms are equal have similarity 100.
C6_EqualNormalized ==
    (pc # "call_similarity"
     /\ strip(upper(query)) = strip(upper(trademark.mark_text))) =>
        (pc = "similarity_done" /\ similarity_score = Score(100))

\* texts that differ only in case and surrounding whitespace
C6_Witness ==
    /\ pc = "similarity_done"
    /\ query # trademark.mark_text
    /\ upper(query) # upper(trademark.mark_text)
    /\ strip(query) # strip(trademark.mark_text)
    /\ strip(upper(query)) = strip(upper(trademark.mark_text))
    /\ strip(upper(query)) # <<>>
    /\ similarity_score = Score(100)

\* C7: calculate_similarity_score(a, b) = calculate_similarity_score(b, a),
\* with the edit distance and with the positional fallback.
C7_Symmetric ==
    pc = "similarity_done" =>
        LET swapped == calculate_similarity_score(trademark.mark_text, query)
        IN  swapped.err = NoError /\ swapped.val = similarity_score

\* the fallback decides the value, on texts of different lengths
C7_Witness ==
    /\ pc = "similarity_done"
    /\ ~HAS_LEVENSHTEIN
    /\ ~HAS_JELLYFISH
    /\ Len(strip(upper(query))) # Len(strip(upper(trademark.mark_text)))
    /\ similarity_score = Score(70)

\* C8: each of the four factor scores is within [0,100], so building the
\* RiskFactors record never fails its range validation.
C8_FactorsInRange ==
    /\ raised # ValidationError
    /\ pc # "call_score" =>
           /\ Scored
           /\ risk_factors.similarity_score \in 0..Score(100)
           /\ risk_factors.class_overlap_score \in 0..Score(100)
           /\ risk_factors.status_strength_score \in 0..Score(100)
           /\ risk_factors.use_commerce_score \in 0..Score(100)

\* two query classes, both among the candidate's: the largest overlap score
C8_Witness ==
    /\ Scored
    /\ Cardinality(normalized(query_classes)) = 2
    /\ normalized(query_classes) \subseteq normalized(trademark.international_classes)
    /\ risk_factors.class_overlap_score = Score(100)

BothEmpty ==
    strip(upper(query)) = <<>> /\ strip(upper(trademark.mark_text)) = <<>>

\* C9 as stated: never raises, and two texts empty after trimming score 0.
C9_Original ==
    pc # "call_similarity" =>
        /\ raised = NoError
        /\ BothEmpty => similarity_score = 0

\* C9 (amended): calculate_similarity_score never raises for any pair of
\* texts, and two texts that are both empty after trimming score 100: they
\* are an exact match, so the zero-length guard of the edit-distance signal
\* is never reached.
C9_NoRaiseEmptyIsExact ==
    pc # "call_similarity" =>
        /\ raised = NoError
        /\ pc = "similarity_done"
        /\ BothEmpty => similarity_score = Score(100)

C9_Witness ==
    /\ pc = "similarity_done"
    /\ BothEmpty
    /\ query # trademark.mark_text
    /\ similarity_score = Score(100)

\* the signals of C10, from the normalized texts
C10_Signals ==
    LET q == strip(upper(query))
        m == strip(upper(trademark.mark_text))
        longest == IF Len(q) >= Len(m) THEN Len(q) ELSE Len(m)
        edit == IF HAS_LEVENSHTEIN
                THEN ((longest - Levenshtein_distance(q, m)) * Score(100)) \div longest
                ELSE (Cardinality({i \in 1..Len(q) : i <= Len(m) /\ q[i] = m[i]})
                      * Score(100)) \div longest
        phonetic == IF HAS_JELLYFISH
                    THEN { IF soundex(q) = soundex(m) THEN Score(80) ELSE 0,
                           IF metaphone(q) = metaphone(m) THEN Score(80) ELSE 0 }
                    ELSE {}
        containment == IF Contains(q, m) \/ Contains(m, q) THEN Score(70) ELSE 0
    IN  {edit} \cup phonetic \cup {containment}

\* C10: for texts whose normalized forms differ the result is the maximum of
\* the applicable signals (edit-distance similarity or the positional
\* fallback, 80 per matching phonetic code, 70 for containment); hence it is
\* >= 70 when one text contains the other and >= 80 when a phonetic code
\* matches.
C10_MaxOfSignals ==
    (pc # "call_similarity"
     /\ strip(upper(query)) # strip(upper(trademark.mark_text))) =>
        LET q == strip(upper(query))
            m == strip(upper(trademark.mark_text))
        IN  /\ pc = "similarity_done"
            /\ similarity_score \in C10_Signals
            /\ \A v \in C10_Signals : similarity_score >= v
            /\ (Contains(q, m) \/ Contains(m, q)) => similarity_score >= Score(70)
            /\ (HAS_JELLYFISH /\ (soundex(q) = soundex(m) \/ metaphone(q) = metaphone(m)))
                   => similarity_score >= Score(80)

\* three different signal values, the phonetic one the largest
C10_Witness ==
    /\ pc = "similarity_done"
    /\ strip(upper(query)) # strip(upper(trademark.mark_text))
    /\ Cardinality(C10_Signals) = 3
    /\ similarity_score = Score(80)

\* the padded class sets of the state, from the lists
QuerySet == { zfill3(query_classes[i]) : i \in 1..Len(query_classes) }

MarkSet ==
    { zfill3(trademark.international_classes[i]) :
          i \in 1..Len(trademark.international_classes) }

\* C11: when the candidate has no classes on record the class overlap score
\* is 85 if similarity >= 95, 70 if >= 80, 55 if >= 60, else 30, whether or
\* not the query specifies classes; similarity 96 gives 85, never 90.
C11_MissingMarkClasses ==
    (pc = "overlap_done" /\ trademark.international_classes = <<>>) =>
        /\ similarity_score >= Score(95) => class_overlap_score = Score(85)
        /\ (similarity_score >= Score(80) /\ similarity_score < Score(95))
               => class_overlap_score = Score(70)
        /\ (similarity_score >= Score(60) /\ similarity_score < Score(80))
               => class_overlap_score = Score(55)
        /\ similarity_score < Score(60) => class_overlap_score = Score(30)
        /\ similarity_score = Score(96) => class_overlap_score = Score(85)

\* the query gives classes, the candidate has none, similarity 96
C11_Witness ==
    /\ pc = "overlap_done"
    /\ trademark.international_classes = <<>>
    /\ query_classes # <<>>
    /\ similarity_score = Score(96)
    /\ class_overlap_score = Score(85)

\* C12: when both class lists are non-empty and their zero-padded sets
\* intersect, the score is min(100, 80 + (|intersection| / |query classes|)
\* * 20), the query classes counted after padding: above 80, at most 100,
\* and 100 iff every query class is among the candidate's.
C12_SharedClasses ==
    (pc = "overlap_done"
     /\ query_classes # <<>>
     /\ trademark.international_classes # <<>>
     /\ QuerySet \cap MarkSet # {}) =>
        /\ class_overlap_score * Cardinality(QuerySet)
               = Score(80) * Cardinality(QuerySet)
                 + Score(20) * Cardinality(QuerySet \cap MarkSet)
        /\ class_overlap_score > Score(80)
        /\ class_overlap_score <= Score(100)
        /\ (class_overlap_score = Score(100)) <=> (QuerySet \subseteq MarkSet)

\* one of two query classes is shared, written without padding: 90
C12_Witness ==
    /\ pc = "overlap_done"
    /\ Cardinality(QuerySet) = 2
    /\ Cardinality(QuerySet \cap MarkSet) = 1
    /\ \E i \in 1..Len(query_classes) :
           /\ zfill3(query_classes[i]) \in MarkSet
           /\ \A j \in 1..Len(trademark.international_classes) :
                  query_classes[i] # trademark.international_classes[j]
    /\ class_overlap_score = Score(90)

\* C13: when both class lists are non-empty and their padded sets are
\* disjoint, the score is 40 if similarity >= 95, 25 if >= 80, else 10.
C13_DisjointClasses ==
    (pc = "overlap_done"
     /\ query_classes # <<>>
     /\ trademark.international_classes # <<>>
     /\ QuerySet \cap MarkSet = {}) =>
        /\ similarity_score >= Score(95) => class_overlap_score = Score(40)
        /\ (similarity_score >= Score(80) /\ similarity_score < Score(95))
               => class_overlap_score = Score(25)
        /\ similarity_score < Score(80) => class_overlap_score = Score(10)

\* similarity exactly 95 across different classes
C13_Witness ==
    /\ pc = "overlap_done"
    /\ query_classes # <<>>
    /\ trademark.international_classes # <<>>
    /\ QuerySet \cap MarkSet = {}
    /\ similarity_score = Score(95)
    /\ class_overlap_score = Score(40)

\* C14: when the candidate has classes and the query gives none, the score
\* is 90 if similarity >= 95, 75 if >= 80, 60 if >= 60, else 40.
C14_NoQueryClasses ==
    (pc = "overlap_done"
     /\ query_classes = <<>>
     /\ trademark.international_classes # <<>>) =>
        /\ similarity_score >= Score(95) => class_overlap_score = Score(90)
        /\ (similarity_score >= Score(80) /\ similarity_score < Score(95))
               => class_overlap_score = Score(75)
        /\ (similarity_score >= Score(60) /\ similarity_score < Score(80))
               => class_overlap_score = Score(60)
        /\ similarity_score < Score(60) => class_overlap_score = Score(40)

\* similarity exactly 60, no query classes
C14_Witness ==
    /\ pc = "overlap_done"
    /\ query_classes = <<>>
    /\ trademark.international_classes # <<>>
    /\ similarity_score = Score(60)
    /\ class_overlap_score = Score(60)

\* C15: the two status factors are lookups on the status: status strength
\* registered 100, pending 70, unknown 50, expired 30, abandoned 20,
\* cancelled 20; use in commerce registered 80, pending 50, all others 20.
C15_StatusLookups ==
    Scored =>
        /\ risk_factors.status_strength_score =
               Score(CASE trademark.status = "registered" -> 100
                       [] trademark.status = "pending" -> 70
                       [] trademark.status = "unknown" -> 50
                       [] trademark.status = "expired" -> 30
                       [] trademark.status = "abandoned" -> 20
                       [] trademark.status = "cancelled" -> 20)
        /\ risk_factors.use_commerce_score =
               Score(CASE trademark.status = "registered" -> 80
                       [] trademark.status = "pending" -> 50
                       [] OTHER -> 20)

C15_Witness ==
    /\ Scored
    /\ trademark.status = "expired"
    /\ risk_factors.status_strength_score = Score(30)
    /\ risk_factors.use_commerce_score = Score(20)

\* the keys of uspto.py:134-146
RecognisedStatusTexts ==
    { <<"R", "E", "G", "I", "S", "T", "E", "R", "E", "D">>, <<"R", "E", "G">>,
      <<"L", "I", "V", "E">>, <<"P", "E", "N", "D", "I", "N", "G">>,
      <<"P", "U", "B">>, <<"P", "U", "B", "L", "I", "S", "H", "E", "D">>,
      <<"A", "B", "A", "N", "D", "O", "N", "E", "D">>, <<"D", "E", "A", "D">>,
      <<"C", "A", "N", "C", "E", "L", "L", "E", "D">>,
      <<"C", "A", "N", "C", "E", "L", "E", "D">>,
      <<"E", "X", "P", "I", "R", "E", "D">> }

Unrecognised ==
    status_str = <<>> \/ upper(status_str) \notin RecognisedStatusTexts

\* C16: a status text that is empty or not a recognised status string is
\* mapped to unknown without raising, and the candidate then gets status
\* strength 50 and use in commerce 20.
C16_UnrecognisedStatus ==
    (pc # "call_parse_status" /\ Unrecognised) =>
        /\ raised = NoError
        /\ pc # "failed"
        /\ trademark.status = "unknown"
        /\ Scored =>
               /\ risk_factors.status_strength_score = Score(50)
               /\ risk_factors.use_commerce_score = Score(20)

\* a non-empty text that is no key, scored
C16_Witness ==
    /\ pc = "levelled"
    /\ status_str # <<>>
    /\ Unrecognised
    /\ upper(status_str) # <<"U", "N", "K", "N", "O", "W", "N">>
    /\ trademark.status = "unknown"
    /\ risk_factors.status_strength_score = Score(50)
    /\ risk_factors.use_commerce_score = Score(20)

C17_SimilarityClause ==
    IF risk_factors.similarity_score >= Score(80)
    THEN << <<"Very similar to '">> \o trademark.mark_text \o <<"'">> >>
    ELSE IF risk_factors.similarity_score >= Score(60)
    THEN << <<"Similar to '">> \o trademark.mark_text \o <<"'">> >>
    ELSE <<>>

C17_StatusClause ==
    CASE trademark.status = "registered" -> << <<"Active registered trademark">> >>
      [] trademark.status = "pending" -> << <<"Pending application">> >>
      [] OTHER -> <<>>

C17_ClassList ==
    LET c == trademark.international_classes
    IN  CASE Len(c) = 0 -> <<>>
          [] Len(c) = 1 -> c[1]
          [] Len(c) = 2 -> c[1] \o <<", ">> \o c[2]

C17_ClassClause ==
    IF risk_factors.class_overlap_score >= Score(80)
    THEN << <<"Same product/service class (">> \o C17_ClassList \o <<")">> >>
    ELSE <<>>

C17_Clauses == C17_SimilarityClause \o C17_StatusClause \o C17_ClassClause

\* C17: the explanation is the triggered clauses in the order similarity,
\* status, class, joined by "; " (at most one similarity clause, at most one
\* status clause, the class clause when class overlap >= 80), and it is the
\* single clause "Potential similarity detected" exactly when none triggered.
C17_ConflictReason ==
    pc = "explained" =>
        /\ Len(C17_Clauses) = 1 => conflict_reason = C17_Clauses[1]
        /\ Len(C17_Clauses) = 2 =>
               conflict_reason = C17_Clauses[1] \o <<"; ">> \o C17_Clauses[2]
        /\ Len(C17_Clauses) = 3 =>
               conflict_reason = C17_Clauses[1] \o <<"; ">> \o C17_Clauses[2]
                                 \o <<"; ">> \o C17_Clauses[3]
        /\ conflict_reason = <<"Potential similarity detected">>
               <=> C17_Clauses = <<>>

\* all three clauses triggered, at the similarity threshold
C17_Witness ==
    /\ pc = "explained"
    /\ risk_factors.similarity_score = Score(80)
    /\ risk_factors.class_overlap_score = Score(80)
    /\ trademark.status = "pending"
    /\ trademark.international_classes =
           << <<"0", "0", "9">>, <<"0", "3", "5">> >>
    /\ conflict_reason =
           <<"Very similar to '">> \o trademark.mark_text
           \o <<"'", "; ", "Pending application", "; ",
                "Same product/service class (", "0", "0", "9", ", ",
                "0", "3", "5", ")">>

Tiered == pc \in {"call_summary", "summarised"}

\* the buckets holding the assessment at position i of the batch
BucketsOf(i) ==
    { b \in RiskLevel :
        \E j \in DOMAIN results_by_tier[b] :
            results_by_tier[b][j] = risk_analyses[i] }

\* C18: tiering is a stable partition: every assessment is in exactly one
\* bucket, the one named by its risk_level; each bucket keeps the input
\* order; the bucket sizes sum to the length of the batch.
C18_StablePartition ==
    Tiered =>
        /\ \A i \in DOMAIN risk_analyses :
               BucketsOf(i) = { risk_analyses[i].risk_level }
        /\ \A b \in RiskLevel :
               \A j, k \in DOMAIN results_by_tier[b] :
                   j < k => results_by_tier[b][j].serial_number
                                < results_by_tier[b][k].serial_number
        /\ Len(results_by_tier.critical) + Len(results_by_tier.high)
           + Len(results_by_tier.medium) + Len(results_by_tier.low)
               = Len(risk_analyses)

\* the batch critical, high, low, high: sizes 1, 2, 0, 1
C18_Witness ==
    /\ Tiered
    /\ Len(risk_analyses) = 4
    /\ risk_analyses[1].risk_level = "critical"
    /\ risk_analyses[3].risk_level = "low"
    /\ results_by_tier.high = << risk_analyses[2], risk_analyses[4] >>
    /\ results_by_tier.critical = << risk_analyses[1] >>
    /\ results_by_tier.medium = <<>>
    /\ results_by_tier.low = << risk_analyses[3] >>

\* the number of assessments of level lv in the batch
LevelCount(lv) ==
    Len(SelectSeq(risk_analyses, LAMBDA r : r.risk_level = lv))

\* C19: the overall level is critical if some assessment is critical,
\* otherwise high if at least 2 are high, otherwise medium if at least 1
\* is high or at least 3 are medium, otherwise low.
C19_Rollup ==
    pc = "summarised" =>
        summary.overall_risk_level =
            CASE LevelCount("critical") >= 1 -> "critical"
              [] LevelCount("critical") = 0 /\ LevelCount("high") >= 2 -> "high"
              [] LevelCount("critical") = 0 /\ LevelCount("high") = 1 -> "medium"
              [] LevelCount("critical") = 0 /\ LevelCount("high") = 0
                 /\ LevelCount("medium") >= 3 -> "medium"
              [] OTHER -> "low"

\* critical, high, high, low rolls up to critical
C19_Witness ==
    /\ pc = "summarised"
    /\ Len(risk_analyses) = 4
    /\ risk_analyses[1].risk_level = "critical"
    /\ risk_analyses[2].risk_level = "high"
    /\ risk_analyses[3].risk_level = "high"
    /\ risk_analyses[4].risk_level = "low"
    /\ summary.overall_risk_level = "critical"

\* the candidates assessed in the response, by serial number
Assessed ==
    UNION { { response.results_by_tier[b][j].serial_number :
                j \in DOMAIN response.results_by_tier[b] } : b \in RiskLevel }

\* C20: a candidate whose scoring or assessment fails does not abort the
\* batch: the request is answered with the assessments of the other
\* candidates and the failing candidate is reported as skipped.
C20_FailureIsolated ==
    (pc = "done" /\ raised # NoError) =>
        /\ response.status_code = 200
        /\ "skipped" \in DOMAIN response
        /\ \A i \in DOMAIN trademarks :
               i \in response.skipped \/ i \in Assessed

\* the results kept so far agree for equal candidates
SameInputsSameResults(log) ==
    \A i, j \in DOMAIN log :
        log[i].candidate = log[j].candidate =>
            /\ log[i].risk_score = log[j].risk_score
            /\ log[i].risk_factors = log[j].risk_factors
            /\ log[i].risk_level = log[j].risk_level

C22_OneAssessmentPerCandidate ==
    (pc = "done" /\ trademarks # <<>>) =>
        /\ response.status_code = 200
        /\ response.total_analyzed = Len(trademarks)
        /\ Len(risk_analyses) = Len(trademarks)

\* C23: in a turn of the enrichment loop a lookup that raised or brought
\* no data leaves the candidate as it was, a lookup with data overwrites
\* owner_name, international_classes and goods_services_description, each
\* only by a non-empty value, and nothing else; the other candidates are
\* untouched and the loop goes on to the next candidate or to the scoring.
C23_Enrichment ==
    [][ pc = "enrich" =>
          LET i == loop_index
              old == trademarks[i]
              new == trademarks'[i]
              t == tsdr_data'
              got == t.outcome = "data"
          IN  /\ Len(trademarks') = Len(trademarks)
              /\ \A j \in DOMAIN trademarks : j # i => trademarks'[j] = trademarks[j]
              /\ ~got => new = old
              /\ new.serial_number = old.serial_number
              /\ new.mark_text = old.mark_text
              /\ new.status = old.status
              /\ new.filing_date = old.filing_date
              /\ new.registration_date = old.registration_date
              /\ new.owner_name =
                     IF got /\ t.owner_name # "" THEN t.owner_name
                     ELSE old.owner_name
              /\ new.international_classes =
                     IF got /\ t.international_classes # <<>>
                     THEN t.international_classes
                     ELSE old.international_classes
              /\ new.goods_services_description =
                     IF got /\ t.goods_services_description # ""
                     THEN t.goods_services_description
                     ELSE old.goods_services_description
              /\ raised' = NoError
              /\ IF i < Len(trademarks)
                 THEN pc' = "enrich" /\ loop_index' = i + 1
                 ELSE pc' = "score" ]_vars

\* the first lookup failed, the second brought an owner but no classes
C23_Witness ==
    /\ pc = "score"
    /\ Len(trademarks) = 2
    /\ trademarks[1].owner_name = "O"
    /\ trademarks[2].owner_name = "T"
    /\ trademarks[2].international_classes
           = << <<"0", "0", "9">>, <<"0", "3", "5">> >>
    /\ tsdr_data.outcome = "data"
    /\ tsdr_data.international_classes = <<>>

\* C24: in a response the counts of the summary's risk_distribution are
\* the sizes of the buckets of results_by_tier, and they sum to the
\* summary's total_results and to total_analyzed.
C24_CountsAgree ==
    pc = "responded" =>
        /\ \A b \in RiskLevel :
               response.summary.risk_distribution[b]
                   = Len(response.results_by_tier[b])
        /\ response.summary.risk_distribution.critical
           + response.summary.risk_distribution.high
           + response.summary.risk_distribution.medium
           + response.summary.risk_distribution.low
               = response.summary.total_results
        /\ response.summary.total_results = response.total_analyzed

C24_Witness ==
    /\ pc = "responded"
    /\ response.total_analyzed = 4
    /\ Len(response.results_by_tier.high) = 2
    /\ response.summary.risk_distribution.high = 2
    /\ response.summary.risk_distribution.critical = 1
    /\ response.summary.risk_distribution.low = 1

\* C25: whether the text-generation call answers, answers with something
\* that is no JSON, or raises, generate_summary returns a summary, and its
\* overall_risk_level, risk_distribution and total_results are those of
\* the summary returned when the call succeeds.
C25_SummaryAlways ==
    pc = "summarised" =>
        /\ raised = NoError
        /\ summary.generated_by \in {"ai", "fallback"}
        /\ summary.overall_risk_level
               = generate_summary(risk_analyses, "json").overall_risk_level
        /\ summary.risk_distribution
               = generate_summary(risk_analyses, "json").risk_distribution
        /\ summary.total_results
               = generate_summary(risk_analyses, "json").total_results

\* the fallback summary of a batch with a critical assessment
C25_Witness ==
    /\ pc = "summarised"
    /\ summary.generated_by = "fallback"
    /\ summary.overall_risk_level = "critical"
    /\ summary.total_results = 3
    /\ summary.risk_distribution.critical = 1

C27_Cap ==
    CASE trademark.status = "pending" -> Score(89)
      [] trademark.status = "unknown" -> Score(82)
      [] trademark.status = "expired" -> Score(78)
      [] trademark.status \in {"abandoned", "cancelled"} -> Score(76)

\* C27: a candidate whose status is not registered scores below 90 (at
\* most 89 pending, 82 unknown, 78 expired, 76 abandoned or cancelled), so
\* its level is never critical.
C27_OnlyRegisteredCritical ==
    (Scored /\ trademark.status # "registered") =>
        /\ risk_score <= C27_Cap
        /\ risk_score < Score(90)
        /\ pc = "levelled" => risk_level # "critical"

\* a pending famous mark equal to the query, in the query's class: 89, high
C27_Witness ==
    /\ pc = "levelled"
    /\ trademark.status = "pending"
    /\ strip(upper(trademark.mark_text)) \in FAMOUS_MARKS
    /\ risk_factors.similarity_score = Score(100)
    /\ risk_factors.class_overlap_score = Score(100)
    /\ risk_score = Score(89)
    /\ risk_level = "high"

\* the levels in rising order
Rank(lv) ==
    CASE lv = "low" -> 1 [] lv = "medium" -> 2 [] lv = "high" -> 3
      [] lv = "critical" -> 4

\* C28: the overall level of a batch is never above the highest level of
\* its assessments, it is critical exactly when some assessment is
\* critical, one high without a critical gives medium, and at most two
\* medium without a high or critical give low.
C28_RollupBounded ==
    pc = "summarised" =>
        /\ risk_analyses # <<>> =>
               \E i \in DOMAIN risk_analyses :
                   Rank(summary.overall_risk_level)
                       <= Rank(risk_analyses[i].risk_level)
        /\ summary.overall_risk_level = "critical" <=> LevelCount("critical") >= 1
        /\ (LevelCount("high") = 1 /\ LevelCount("critical") = 0) =>
               summary.overall_risk_level = "medium"
        /\ (LevelCount("medium") <= 2 /\ LevelCount("high") = 0
            /\ LevelCount("critical") = 0) =>
               summary.overall_risk_level = "low"

\* one high among low assessments and two medium ones: medium
C28_Witness ==
    /\ pc = "summarised"
    /\ LevelCount("high") = 1
    /\ LevelCount("medium") = 2
    /\ LevelCount("low") = 1
    /\ summary.overall_risk_level = "medium"

\* the batch rearranged by p
Permuted(p) == [ i \in DOMAIN risk_analyses |-> risk_analyses[p[i]] ]

RECURSIVE Orders(_)
\* the arrangements of 1..n: n put at any place of an arrangement of 1..n-1
Orders(n) ==
    IF n = 0 THEN { <<>> }
    ELSE { SubSeq(q, 1, k - 1) \o <<n>> \o SubSeq(q, k, n - 1) :
             q \in Orders(n - 1), k \in 1..n }

BatchOrders == Orders(Len(risk_analyses))

\* C29: adding an assessment to a batch never lowers its overall level,
\* and the overall level is the same for every order of the assessments.
C29_MonotoneAndSymmetric ==
    [][ (pc = "call_summary" /\ pc' = "summarised") =>
            /\ risk_analyses # <<>> =>
                   Rank(summary'.overall_risk_level)
                       >= Rank(summary.overall_risk_level)
            /\ \A p \in BatchOrders :
                   overall_risk(risk_distribution(Permuted(p)))
                       = summary'.overall_risk_level ]_vars

\* a third medium assessment has raised the overall level from low
C29_Witness ==
    /\ pc = "summarised"
    /\ Len(risk_analyses) = 4
    /\ LevelCount("medium") = 3
    /\ risk_analyses[1].risk_level = "low"
    /\ summary.overall_risk_level = "medium"

\* the explanation holds the same-class clause
HasClassClause ==
    \E i \in DOMAIN conflict_reason :
        conflict_reason[i] = "Same product/service class ("

\* the same-class clause names no class
HasEmptyClassClause ==
    \E i \in DOMAIN conflict_reason :
        /\ conflict_reason[i] = "Same product/service class ("
        /\ i < Len(conflict_reason)
        /\ conflict_reason[i + 1] = ")"

\* C30: the same-class clause is in the explanation exactly when the class
\* overlap score is >= 80; that is also so without any common class: no
\* query classes and similarity >= 95 (overlap 90), and a candidate
\* without classes and similarity >= 95 (overlap 85), where the clause
\* names no class.
C30_ClassClause ==
    pc = "explained" =>
        /\ HasClassClause <=> risk_factors.class_overlap_score >= Score(80)
        /\ (query_classes = <<>> /\ trademark.international_classes # <<>>
            /\ risk_factors.similarity_score >= Score(95)) =>
               /\ risk_factors.class_overlap_score = Score(90)
               /\ HasClassClause
        /\ (trademark.international_classes = <<>>
            /\ risk_factors.similarity_score >= Score(95)) =>
               /\ risk_factors.class_overlap_score = Score(85)
               /\ HasEmptyClassClause

\* a candidate without classes whose mark equals the query, asked with a
\* class: the clause appears, with nothing between the brackets
C30_Witness ==
    /\ pc = "explained"
    /\ trademark.international_classes = <<>>
    /\ query_classes # <<>>
    /\ risk_factors.similarity_score = Score(100)
    /\ risk_factors.class_overlap_score = Score(85)
    /\ HasEmptyClassClause

==========================================================================
